---- MODULE Spec2Model ----
(***************************************************************************)
(* Model of pyspk (src/pyspk/model.py): the SP(k) suppression model.       *)
(*                                                                         *)
(* Number representation.  Python floats are modelled in fixed point:     *)
(*   - "linear" quantities (redshift, wavenumber, shape parameters, the    *)
(*     shape functions, the suppression) are integers in units of 1/Scale; *)
(*   - positive quantities that span many decades (halo masses, baryon     *)
(*     fractions, fit limits) are records holding their log10 in units of  *)
(*     1/Scale dex, with the floats 0.0 and NaN as separate cases.         *)
(* numpy's exp, log10 and power are library primitives and are modelled by *)
(* integer approximations (Exp, Log10, Pow10); the functions of the        *)
(* repository are translated term by term on top of them.                  *)
(***************************************************************************)
EXTENDS Integers, Sequences, FiniteSets, TLC

\* ------------------------------------------------------------- bounds
\* Largest number of wavenumber samples `n` a call asks for.
MaxN == 3

\* Largest number of calls that end before the last call of a run starts.
MaxCalls == 3

\* ------------------------------------------------------ fixed point
\* Units per 1.0 of every linear quantity, and per dex of every log10.
Scale == 10 * 100

\* a*b in fixed point, without forming a product beyond 32 bits.
MulS(a, b) == (a \div Scale) * b + ((a % Scale) * b) \div Scale

\* a/b in fixed point (b # 0).
DivS(a, b) == (a * Scale) \div b

\* e^q for a natural q, in fixed point (2718 = e).
RECURSIVE ExpInt(_)
ExpInt(q) == IF q = 0 THEN Scale ELSE MulS(ExpInt(q - 1), 2718)

\* e^(r/Scale) for 0 <= r < Scale: Taylor series to the fourth order.
ExpFrac(r) ==
    LET r2 == (r * r) \div Scale
        r3 == (r2 * r) \div (6 * Scale)
        r4 == (r3 * r) \div (4 * Scale)
    IN  Scale + r + (r2 \div 2) + r3 + r4

\* The largest argument np.exp is evaluated at without saturating the model.
ExpCap == 14 * Scale

\* np.exp for x >= 0.
ExpPos(x) ==
    LET y == IF x > ExpCap THEN ExpCap ELSE x
    IN  MulS(ExpInt(y \div Scale), ExpFrac(y % Scale))

\* np.exp.
Exp(x) == IF x >= 0 THEN ExpPos(x) ELSE (Scale * Scale) \div ExpPos(0 - x)

\* 10 ** l for a linear result (2303 = ln 10).
Pow10(l) == Exp(MulS(l, 2303))

\* np.log10 of a positive linear value: the largest l with 10**l <= v,
\* found by bisection over [lo, hi).
RECURSIVE Log10Search(_, _, _)
Log10Search(v, lo, hi) ==
    IF hi - lo <= 1 THEN lo
    ELSE LET mid == (lo + hi) \div 2
         IN  IF Pow10(mid) <= v THEN Log10Search(v, mid, hi)
                                ELSE Log10Search(v, lo, mid)

Log10(v) == Log10Search(v, -4000, 4000)

\* ------------------------------------------------------- module state
VARIABLES
    fit_table,   \* the coefficient tables (_best_fit_vals)
    limit_table, \* the fit-limit tables (_limits)
    registry     \* the interpreter's registry of warnings already shown

\* --------------------------------------------------- coefficient tables
\* str(SO): the table key an overdensity argument is looked up under.
Str(SO) == IF SO = 200 THEN "200" ELSE IF SO = 500 THEN "500" ELSE "100"

\* The 11 parameter names of the model.
ParamNames ==
    {"alpha", "beta", "gamma", "lambda_a", "lambda_b",
     "mu_a", "mu_b", "mu_c", "nu_a", "nu_b", "nu_c"}

\* Coefficient triples <<c0, c1, c2>> per parameter, in units of 1/Scale.
FitVals200 ==
    [
        alpha    |-> <<15275, -1245, 145>>,
        beta     |-> <<14930, -1063, 121>>,
        gamma    |-> <<973, -334, 148>>,
        lambda_a |-> <<33, -13, 2>>,
        lambda_b |-> <<2936, 465, 15>>,
        mu_a     |-> <<719, -174, 43>>,
        mu_b     |-> <<7061, -2645, 694>>,
        mu_c     |-> <<9728, -6692, 1318>>,
        nu_a     |-> <<659606, 190655, 25123>>,
        nu_b     |-> <<-10628, 389, 246>>,
        nu_c     |-> <<3154, -132, -70>> ]

FitVals500 ==
    [
        alpha    |-> <<14765, -986, 119>>,
        beta     |-> <<14611, -909, 108>>,
        gamma    |-> <<842, 70, 15>>,
        lambda_a |-> <<20, -7, 1>>,
        lambda_b |-> <<3043, 526, 7>>,
        mu_a     |-> <<688, -155, 41>>,
        mu_b     |-> <<4373, 403, -27>>,
        mu_c     |-> <<5514, -2892, 596>>,
        nu_a     |-> <<585113, 867076, 38902>>,
        nu_b     |-> <<-11244, -96, 377>>,
        nu_c     |-> <<3355, -127, -82>> ]

\* best_fit_vals: the coefficient sets keyed by str(SO).
best_fit_vals == [s \in {"200", "500"} |-> IF s = "200" THEN FitVals200 ELSE FitVals500]

\* ------------------------------------------------------ pure functions
\* _poly_2: vals[2] * x**2 + vals[1] * x + vals[0] (vals is a 1-based tuple here).
poly_2(x, vals) == MulS(vals[3], MulS(x, x)) + MulS(vals[2], x) + vals[1]

\* np.power(k, gamma) for a positive linear k.
Power(k, gamma) == Pow10(MulS(gamma, Log10(k)))

\* _optimal_mass_funct at one wavenumber: log10 of the optimal mass.
optimal_mass_funct(k, params) ==
    params["alpha"] - MulS(params["alpha"] - params["beta"], Power(k, params["gamma"]))

\* _lambda_funct at one log-wavenumber.
lambda_funct(x, params) == Scale + MulS(params["lambda_a"], Exp(MulS(params["lambda_b"], x)))

\* _mu_funct at one log-wavenumber.
mu_funct(x, params) ==
    LET A == params["mu_a"]
        B == Scale - params["mu_a"]
        C == Scale + Exp(MulS(params["mu_b"], x) + params["mu_c"])
    IN  A + DivS(B, C)

\* _nu_func at one log-wavenumber.
nu_func(x, params) ==
    LET A == params["nu_a"]
        q == DivS(x - params["nu_b"], params["nu_c"])
        B == Exp(0 - (MulS(q, q) \div 2))
    IN  MulS(A, B)

\* The body of _get_params' loop: every parameter's polynomial at 1 + z.
EvalParams(SO, z) ==
    [p \in DOMAIN fit_table[Str(SO)] |-> poly_2(Scale + z, fit_table[Str(SO)][p])]

\* ------------------------------------------------------------ values
\* Python None, as an argument that was not given.
NoneV == [c |-> "none", l |-> 0]

\* A linear float argument (fb_pow), in units of 1/Scale.
Lin(v) == [c |-> "lin", l |-> v]

\* The positive float 10 ** (l / Scale).
Pos(l) == [c |-> "pos", l |-> l]

\* The float 0.0.
ZeroF == [c |-> "zero", l |-> 0]

\* The float NaN.
NaNF == [c |-> "nan", l |-> 0]

\* A finite entry of a linear array that may also hold NaN (sup, error bands).
Fin(v) == [c |-> "fin", l |-> v]

\* An array argument that was given (None is NoArr).
Arr(s) == [given |-> TRUE, v |-> s]

NoArr == [given |-> FALSE, v |-> <<>>]

\* Python truthiness of an optional float argument: None and 0 are falsy.
Truthy(x) == ~(x.c = "none" \/ x.c = "zero" \/ (x.c = "lin" /\ x.l = 0))

\* a < b on floats: every comparison with NaN is False.
FLess(a, b) ==
    CASE a.c = "nan" \/ b.c = "nan" -> FALSE
      [] a.c = "zero" -> b.c = "pos"
      [] b.c = "zero" -> FALSE
      [] OTHER -> a.l < b.l

\* ------------------------------------------------------------ inputs
\* Redshifts a caller passes, in units of 1/Scale: below 0, 0, the soft
\* floor 0.125, the hard ceiling 3 and above it.
ZSet == {-125, 0, 125, 3000, 3125}

\* Overdensities a caller passes: the two supported ones and another.
SOSet == {200, 500, 100}

\* k_min and k_max a caller passes (increasing, equal and decreasing pairs).
KMinSet == {100, 12000}

KMaxSet == {8000, 12000, 13000}

\* fb_a: not given, 0, or 10 ** -4.
FbASet == {NoneV, ZeroF, Pos(-4000)}

\* fb_pow: not given, 0, or 0.275.
FbPowSet == {NoneV, Lin(0), Lin(275)}

\* Tabulated relations <<M_halo, fb>> a caller passes, as log10 values:
\* nothing, masses only, a relation inside the fit limits that covers part
\* of the optimal masses, one that rises above the upper limit, and one
\* whose masses decrease.
TableSet ==
    { <<NoArr, NoArr>>,
      <<Arr(<<12500, 13500>>), NoArr>>,
      <<Arr(<<12500, 13500>>), Arr(<<-1000, -500>>)>>,
      <<Arr(<<12000, 13300, 14500>>), Arr(<<-1000, -500, 1500>>)>>,
      <<Arr(<<13500, 12500>>), Arr(<<-1000, -500>>)>> }

\* Wavenumber arrays passed to optimal_mass.
KArrSet == { <<>>, <<100, 1000, 8000>>, <<1000, 9000>>, <<12000>>, <<1000, 13000>> }

\* Halo-mass arrays passed to get_limits, as log10 values.
MArrSet == { <<>>, <<Pos(13000)>>, <<Pos(12000), Pos(14000)>>, <<ZeroF, Pos(13000)>> }

\* The arguments of one call; a field a function does not take keeps its default.
DefaultArgs ==
    [SO |-> 200, z |-> 125, fb_a |-> NoneV, fb_pow |-> NoneV, fb_pivot |-> Pos(0),
     M_halo |-> NoArr, fb |-> NoArr, extrapolate |-> FALSE,
     k_min |-> 100, k_max |-> 8000, n |-> 0, errors |-> FALSE,
     k |-> <<>>, m_halo |-> <<>>]

SupModelArgs ==
    { [DefaultArgs EXCEPT !.SO = SO, !.z = z, !.fb_a = a, !.fb_pow = p,
                          !.M_halo = t[1], !.fb = t[2], !.extrapolate = x,
                          !.k_min = lo, !.k_max = hi, !.n = n, !.errors = e] :
        SO \in SOSet, z \in ZSet, a \in FbASet, p \in FbPowSet, t \in TableSet,
        x \in BOOLEAN, lo \in KMinSet, hi \in KMaxSet, n \in 0..MaxN, e \in BOOLEAN }

OptimalMassArgs ==
    { [DefaultArgs EXCEPT !.SO = SO, !.z = z, !.k = k] :
        SO \in SOSet, z \in ZSet, k \in KArrSet }

GetLimitsArgs ==
    { [DefaultArgs EXCEPT !.SO = SO, !.z = z, !.m_halo = m] :
        SO \in SOSet, z \in ZSet, m \in MArrSet }

\* ---------------------------------------------------- program constants
\* Redshift limits of sup_model: z > 3 is fatal, z < 0.125 is a warning.
ZHard == 3000

ZSoft == 125

\* Wavenumber limits: k_max > 12 is fatal, k_max > 8 is a warning.
\* (KHardLoose: the fatal limit taken one unit of k too high.)
KHardLoose == 13 * Scale

KHard == 12000

\* (KSoftLoose: the warning limit taken one unit of k too high.)
KSoftLoose == 9 * Scale

KSoft == 8000

\* (The interpreter's default action: a warning is shown once per location.)
UserWarningFilterDefault == "default"

\* (A filter that turns warnings into exceptions.)
UserWarningFilterError == "error"

\* The module's warnings filter for UserWarning: "always" shows every
\* warning; under "error" a warning would be raised as an exception.
UserWarningFilter == "always"

\* --------------------------------------------------------- helpers
\* _get_params that falls back to the 200 table for an unknown overdensity.
get_params_fallback(SO, z) ==
    [ok |-> TRUE,
     params |-> EvalParams(IF Str(SO) \in DOMAIN fit_table THEN SO ELSE 200, z)]

\* _get_params: the lookup of str(SO) fails for an unsupported overdensity
\* (the bare except turns it into the overdensity error); otherwise every
\* parameter is evaluated.
get_params(SO, z) ==
    IF Str(SO) \in DOMAIN fit_table
    THEN [ok |-> TRUE, params |-> EvalParams(SO, z)]
    ELSE [ok |-> FALSE, params |-> [p \in {} |-> 0]]

\* np.linspace(start, stop, n)[i] for i in 0..n-1.
linspace(start, stop, n, i) ==
    IF n = 1 THEN start
    ELSE IF i = n - 1 THEN stop
    ELSE start + (i * (stop - start)) \div (n - 1)

\* np.round(x, 6): the model's unit 1/Scale is coarser than 10^-6, so the
\* value is rounded to that unit, which every modelled value already is.
round6(x) == (x * Scale + (Scale \div 2)) \div Scale

\* The grid without its endpoint (np.logspace(..., endpoint=False) cut short).
logspace_grid_short(k_min, k_max, n) ==
    [i \in 1..(IF n = 0 THEN 0 ELSE n - 1) |->
        round6(Pow10(linspace(Log10(k_min), Log10(k_max), n, i - 1)))]

\* k = np.round(np.logspace(np.log10(k_min), np.log10(k_max), n), 6).
logspace_grid(k_min, k_max, n) ==
    [i \in 1..n |-> round6(Pow10(linspace(Log10(k_min), Log10(k_max), n, i - 1)))]

\* _power_law that leaves the amplitude fb_a out of the product.
power_law_no_amplitude(lm, fb_a, fb_pow, fb_pivot) ==
    Pos(MulS(fb_pow.l, lm - fb_pivot.l))

\* _power_law at one mass m = 10 ** lm: fb_a * np.power(m / fb_pivot, fb_pow).
power_law(lm, fb_a, fb_pow, fb_pivot) ==
    IF fb_a.c = "zero" THEN ZeroF
    ELSE Pos(fb_a.l + MulS(fb_pow.l, lm - fb_pivot.l))

\* _power_law raises (TypeError) when fb_a or fb_pow is None.
power_law_raises(fb_a, fb_pow) == fb_a.c = "none" \/ fb_pow.c = "none"

\* Whether xs is strictly increasing.
StrictlyIncreasing(xs) == \A i \in 1..(Len(xs) - 1) : xs[i] < xs[i + 1]

\* np.log10(M_halo), np.log10(fb) and the Akima1DInterpolator constructor
\* raise when an array is None, the lengths differ, fewer than two points
\* are given or the abscissae are not increasing.
interpolator_raises(M_halo, fb) ==
    ~ ( /\ M_halo.given /\ fb.given
        /\ Len(M_halo.v) = Len(fb.v)
        /\ Len(M_halo.v) >= 2
        /\ StrictlyIncreasing(M_halo.v) )

\* The interpolant on the interval xs[j], xs[j+1] at x (piecewise linear in
\* place of Akima's cubic; both pass through the samples).
Segment(xs, ys, j, x) ==
    ys[j] + ((x - xs[j]) * (ys[j + 1] - ys[j])) \div (xs[j + 1] - xs[j])

\* 10 ** fb_inter(x): NaN outside the samples unless extrapolate, and then
\* the boundary interval extended.
fb_inter(xs, ys, extrapolate, x) ==
    LET N == Len(xs) IN
    IF x < xs[1] THEN (IF extrapolate THEN Pos(Segment(xs, ys, 1, x)) ELSE NaNF)
    ELSE IF x > xs[N] THEN (IF extrapolate THEN Pos(Segment(xs, ys, N - 1, x)) ELSE NaNF)
    ELSE LET j == CHOOSE j \in 1..(N - 1) : xs[j] <= x /\ x <= xs[j + 1]
         IN  Pos(Segment(xs, ys, j, x))

\* The keys of the fit-limit table `limits`.
LimitKeys == {"200", "500"}

\* The redshift range the fit-limit table covers.
LimitZLo == 125

LimitZHi == 3000

\* limits: per key, the redshift range covered and the coefficients <<x0, x1,
\* x2>> of the lower and of the upper limit (taken constant over redshift).
limits ==
    [s \in LimitKeys |->
        [zlo |-> LimitZLo, zhi |-> LimitZHi,
         min |-> <<-8000, 500, 0>>, max |-> <<-3000, 250, 0>>]]

\* The six coefficients the redshift interpolators give at z: <<x0, x1, x2>>
\* of the lower and of the upper limit.  Outside the table's range the
\* interpolators give NaN.
LimitCoef(SO, z) ==
    LET t == limit_table[Str(SO)] IN
    [nan |-> z < t.zlo \/ z > t.zhi, min |-> t.min, max |-> t.max]

\* The limit at one mass with NaN coefficients read as 0.
LimitAtNanAsZero(nan, c, m) ==
    IF m.c = "nan" \/ m.c = "zero" THEN NaNF
    ELSE IF nan THEN Pos(0)
    ELSE Pos(c[1] + MulS(c[2], m.l) + MulS(c[3], MulS(m.l, m.l)))

\* 10 ** (x0 + x1 * log10(m) + x2 * log10(m) ** 2) at one mass.
LimitAt(nan, c, m) ==
    IF nan \/ m.c = "nan" \/ m.c = "zero" THEN NaNF
    ELSE Pos(c[1] + MulS(c[2], m.l) + MulS(c[3], MulS(m.l, m.l)))

\* get_limits raises (KeyError) when str(SO) is no key of the table.
get_limits_raises(SO) == Str(SO) \notin DOMAIN limit_table

\* get_limits: the pair of arrays (min_fb, max_fb).
get_limits(SO, z, m_halo) ==
    LET co == LimitCoef(SO, z) IN
    [min_fb |-> [i \in 1..Len(m_halo) |-> LimitAt(co.nan, co.min, m_halo[i])],
     max_fb |-> [i \in 1..Len(m_halo) |-> LimitAt(co.nan, co.max, m_halo[i])]]

\* A float baryon fraction as a linear value (saturated at 10 ** 3).
FLin(f) ==
    IF f.c = "zero" THEN 0
    ELSE Pow10(IF f.l > 3 * Scale THEN 3 * Scale ELSE f.l)

\* x0 - (x0 - x1) * np.exp(-x2 * f_b) at one index.
sup_at(x0, x1, x2, f) ==
    IF f.c = "nan" THEN NaNF
    ELSE Fin(x0 - MulS(x0 - x1, Exp(0 - MulS(x2, FLin(f)))))

\* One statistical-error band at (k, f_b, z): the scattered-data
\* interpolator gives NaN outside the grid's hull, a value inside.
error_band(band, k, f, z) == IF f.c = "pos" THEN Fin(band) ELSE NaNF

\* -------------------------------------------------------------- state
VARIABLES
    call,       \* the public function called
    args,       \* its arguments
    pc,         \* the statement the call is at; "returned" or "raised" at its end
    params,     \* sup_model / optimal_mass: the ShapeParameters
    k,          \* sup_model: the wavenumber grid
    logk,       \* sup_model: log10 of the grid
    best_mass,  \* sup_model: log10 of the optimal mass per wavenumber
    mode,       \* sup_model: the baryon-fraction branch taken
    f_b,        \* sup_model: the baryon fraction per wavenumber
    lims,       \* sup_model: min_fb and max_fb per wavenumber
    mask,       \* sup_model: out_min and out_max per wavenumber
    sup,        \* sup_model: the suppression per wavenumber
    ret,        \* the value returned
    err,        \* the exception raised
    warnings,   \* the warnings emitted, in order
    done,       \* the numeric steps completed, in order
    history,    \* the calls that have ended, each with its outcome
    ncalls      \* the number of calls that have ended

vars == <<call, args, pc, params, k, logk, best_mass, mode, f_b, lims, mask,
          sup, ret, err, warnings, done, fit_table, limit_table, registry,
          history, ncalls>>

NoErr == [kind |-> "none", line |-> 0]

NoParams == [p \in {} |-> 0]

NoLims == [min_fb |-> <<>>, max_fb |-> <<>>]

NoMask == [out_min |-> <<>>, out_max |-> <<>>]

NoRet == [k |-> <<>>, sup |-> <<>>, bands |-> <<>>, masses |-> <<>>, limits |-> NoLims]

Init ==
    /\ \/ call = "sup_model" /\ args \in SupModelArgs /\ pc = "validate"
       \/ call = "optimal_mass" /\ args \in OptimalMassArgs /\ pc = "om_check"
       \/ call = "get_limits" /\ args \in GetLimitsArgs /\ pc = "gl_call"
    /\ params = NoParams
    /\ k = <<>>
    /\ logk = <<>>
    /\ best_mass = <<>>
    /\ mode = "none"
    /\ f_b = <<>>
    /\ lims = NoLims
    /\ mask = NoMask
    /\ sup = <<>>
    /\ ret = NoRet
    /\ err = NoErr
    /\ warnings = <<>>
    /\ done = <<>>
    /\ fit_table = best_fit_vals
    /\ limit_table = limits
    /\ registry = {}
    /\ history = {}
    /\ ncalls = 0

\* raise Exception(...) at a source line: the call ends.
Raise(kind, line) ==
    /\ pc' = "raised"
    /\ err' = [kind |-> kind, line |-> line]

\* warnings.warn(...) under the module's filter: the warnings of a step are
\* emitted in order; under an "error" filter the first one is raised instead.
WarnRaises(ws) == UserWarningFilter = "error" /\ ws # <<>>

\* ---------------------------------------------------------- sup_model
\* A warning: what it is about and, for a masking warning, the range of
\* log10 halo masses it names.
W(name) == [w |-> name, lo |-> 0, hi |-> 0]

\* The warnings among ws that are shown: all of them under the "always"
\* filter; under the interpreter's "default" action only those not yet in
\* the registry of warnings shown.
Shown(ws) ==
    IF UserWarningFilter = "always" THEN ws
    ELSE LET Fresh(w) == w \notin registry IN SelectSeq(ws, Fresh)

\* warnings.warn for each of ws: "always" leaves the registry alone, any
\* other action enters what it shows.
Warn(ws) ==
    /\ warnings' = warnings \o Shown(ws)
    /\ registry' = IF UserWarningFilter = "always" THEN registry
                   ELSE registry \cup {ws[i] : i \in 1..Len(ws)}

\* The warnings lines 308-318 emit for (z, k_max).
SoftWarnings(a) ==
    (IF a.z < ZSoft THEN <<W("z_below_calibration")>> ELSE <<>>)
    \o (IF a.k_max > KSoft THEN <<W("k_above_nyquist")>> ELSE <<>>)

\* Lines 301-318: the redshift and k_max checks.
Validate ==
    /\ pc = "validate"
    /\ IF args.z < 0 THEN
            Raise("InvalidInput", 302) /\ UNCHANGED <<warnings, registry>>
       ELSE IF args.z > ZHard THEN
            Raise("OutOfCalibrationRange", 305) /\ UNCHANGED <<warnings, registry>>
       ELSE IF args.z < ZSoft /\ UserWarningFilter = "error" THEN
            Raise("UserWarning", 309) /\ UNCHANGED <<warnings, registry>>
       ELSE IF args.k_max > KHard THEN
            /\ Raise("OutOfCalibrationRange", 313)
            /\ Warn(IF args.z < ZSoft THEN <<W("z_below_calibration")>> ELSE <<>>)
       ELSE IF WarnRaises(SoftWarnings(args)) THEN
            Raise("UserWarning", 317) /\ UNCHANGED <<warnings, registry>>
       ELSE /\ pc' = "params"
            /\ Warn(SoftWarnings(args))
            /\ UNCHANGED err
    /\ UNCHANGED <<fit_table, limit_table, history, ncalls,
                   call, args, params, k, logk, best_mass, mode, f_b, lims, mask,
                   sup, ret, done>>

\* Params with the polynomials evaluated before the overdensity is looked up.
ParamsEvalFirst ==
    /\ pc = "params"
    /\ LET r == get_params(args.SO, args.z) IN
       IF r.ok THEN /\ params' = r.params
                    /\ done' = Append(done, "params")
                    /\ pc' = "grid"
                    /\ UNCHANGED err
               ELSE /\ Raise("InvalidConfiguration", 231)
                    /\ done' = Append(done, "params")
                    /\ UNCHANGED params
    /\ UNCHANGED <<fit_table, limit_table, history, ncalls, registry,
                   call, args, k, logk, best_mass, mode, f_b, lims, mask, sup, ret,
                   warnings>>

\* Line 320: params = _get_params(SO, z).
Params ==
    /\ pc = "params"
    /\ LET r == get_params(args.SO, args.z) IN
       IF r.ok THEN /\ params' = r.params
                    /\ done' = Append(done, "params")
                    /\ pc' = "grid"
                    /\ UNCHANGED err
               ELSE /\ Raise("InvalidConfiguration", 231)
                    /\ UNCHANGED <<params, done>>
    /\ UNCHANGED <<fit_table, limit_table, history, ncalls, registry,
                   call, args, k, logk, best_mass, mode, f_b, lims, mask, sup, ret,
                   warnings>>

\* Lines 321-322: the wavenumber grid and its log10.
Grid ==
    /\ pc = "grid"
    /\ LET g == logspace_grid(args.k_min, args.k_max, args.n) IN
       /\ k' = g
       /\ logk' = [i \in 1..Len(g) |-> Log10(g[i])]
    /\ done' = Append(done, "grid")
    /\ pc' = "mass"
    /\ UNCHANGED <<fit_table, limit_table, history, ncalls, registry,
                   call, args, params, best_mass, mode, f_b, lims, mask, sup, ret,
                   err, warnings>>

\* Line 324: best_mass = _optimal_mass_funct(k, params).
Mass ==
    /\ pc = "mass"
    /\ best_mass' = [i \in 1..Len(k) |-> optimal_mass_funct(k[i], params)]
    /\ done' = Append(done, "mass")
    /\ pc' = "fb"
    /\ UNCHANGED <<fit_table, limit_table, history, ncalls, registry,
                   call, args, params, k, logk, mode, f_b, lims, mask, sup, ret,
                   err, warnings>>

\* The test of line 326: `if fb_a or fb_pow`.
UsePowerLaw(a) == Truthy(a.fb_a) \/ Truthy(a.fb_pow)

\* Lines 326-346: the baryon fraction at the optimal masses.
BaryonFraction ==
    /\ pc = "fb"
    /\ IF UsePowerLaw(args) THEN
            /\ mode' = "power_law"
            /\ IF power_law_raises(args.fb_a, args.fb_pow)
               THEN Raise("MissingParameter", 333) /\ UNCHANGED <<f_b, done>>
               ELSE /\ f_b' = [i \in 1..Len(best_mass) |->
                                 power_law(best_mass[i], args.fb_a, args.fb_pow,
                                           args.fb_pivot)]
                    /\ done' = Append(done, "fb")
                    /\ pc' = "limits"
                    /\ UNCHANGED err
       ELSE /\ mode' = "tabulated"
            /\ IF interpolator_raises(args.M_halo, args.fb)
               THEN Raise("MissingParameter", 344) /\ UNCHANGED <<f_b, done>>
               ELSE /\ f_b' = [i \in 1..Len(best_mass) |->
                                 fb_inter(args.M_halo.v, args.fb.v, args.extrapolate,
                                          best_mass[i])]
                    /\ done' = Append(done, "fb")
                    /\ pc' = "limits"
                    /\ UNCHANGED err
    /\ UNCHANGED <<fit_table, limit_table, history, ncalls, registry,
                   call, args, params, k, logk, best_mass, lims, mask, sup, ret,
                   warnings>>

\* Line 348: min_fb, max_fb = get_limits(SO, z, 10 ** best_mass).
Limits ==
    /\ pc = "limits"
    /\ IF get_limits_raises(args.SO)
       THEN Raise("KeyError", 196) /\ UNCHANGED <<lims, done>>
       ELSE /\ lims' = get_limits(args.SO, args.z,
                                  [i \in 1..Len(best_mass) |-> Pos(best_mass[i])])
            /\ done' = Append(done, "limits")
            /\ pc' = "mask"
            /\ UNCHANGED err
    /\ UNCHANGED <<fit_table, limit_table, history, ncalls, registry,
                   call, args, params, k, logk, best_mass, mode, f_b, mask, sup, ret,
                   warnings>>


\* The smallest and the largest of a non-empty set of integers.
SetMin(S) == CHOOSE x \in S : \A y \in S : x <= y

SetMax(S) == CHOOSE x \in S : \A y \in S : x >= y

\* A masking warning of lines 355-367 for the flagged indexes, or none.
MaskWarning(name, flags, masses) ==
    LET idx == {i \in 1..Len(flags) : flags[i]} IN
    IF idx = {} THEN <<>>
    ELSE <<[w |-> name,
            lo |-> SetMin({masses[i] : i \in idx}),
            hi |-> SetMax({masses[i] : i \in idx})]>>

\* Lines 350-369: the indexes outside the fit limits, and their warnings.
Mask ==
    /\ pc = "mask"
    /\ LET out_min == [i \in 1..Len(f_b) |-> FLess(f_b[i], lims.min_fb[i])]
           out_max == [i \in 1..Len(f_b) |-> FLess(lims.max_fb[i], f_b[i])]
           ws == MaskWarning("fb_below_limit", out_min, best_mass)
                 \o MaskWarning("fb_above_limit", out_max, best_mass)
       IN  IF WarnRaises(ws)
           THEN Raise("UserWarning", 356) /\ UNCHANGED <<mask, warnings, registry, done>>
           ELSE /\ mask' = [out_min |-> out_min, out_max |-> out_max]
                /\ Warn(ws)
                /\ done' = Append(done, "mask")
                /\ pc' = "assemble"
                /\ UNCHANGED err
    /\ UNCHANGED <<fit_table, limit_table, history, ncalls,
                   call, args, params, k, logk, best_mass, mode, f_b, lims, sup, ret>>

\* The mask built from out_max alone.
MaskedAboveOnly(m, i) == m.out_max[i]

\* mask = np.logical_or(out_min, out_max) at one index.
Masked(m, i) == m.out_min[i] \/ m.out_max[i]

\* Lines 371-377: the shape functions, the suppression, sup[mask] = NaN.
Assemble ==
    /\ pc = "assemble"
    /\ sup' = [i \in 1..Len(logk) |->
                 IF Masked(mask, i) THEN NaNF
                 ELSE sup_at(lambda_funct(logk[i], params), mu_funct(logk[i], params),
                             nu_func(logk[i], params), f_b[i])]
    /\ done' = Append(done, "assemble")
    /\ pc' = "finish"
    /\ UNCHANGED <<fit_table, limit_table, history, ncalls, registry,
                   call, args, params, k, logk, best_mass, mode, f_b, lims, mask, ret,
                   err, warnings>>

\* The four error bands of lines 380-393 (68% and 95%, lower and upper).
ErrorBands ==
    << [i \in 1..Len(k) |-> error_band(-20, k[i], f_b[i], args.z)],
       [i \in 1..Len(k) |-> error_band(20, k[i], f_b[i], args.z)],
       [i \in 1..Len(k) |-> error_band(-40, k[i], f_b[i], args.z)],
       [i \in 1..Len(k) |-> error_band(40, k[i], f_b[i], args.z)] >>

\* Lines 379-398: the error bands when asked for, and the return.
Finish ==
    /\ pc = "finish"
    /\ ret' = [NoRet EXCEPT !.k = k, !.sup = sup,
                            !.bands = IF args.errors THEN ErrorBands ELSE <<>>]
    /\ pc' = "returned"
    /\ UNCHANGED <<fit_table, limit_table, history, ncalls, registry,
                   call, args, params, k, logk, best_mass, mode, f_b, lims, mask, sup,
                   err, warnings, done>>

\* ------------------------------------------------------- optimal_mass
\* np.max(k).
ArrMax(s) == SetMax({s[i] : i \in 1..Len(s)})

\* Lines 96-102: the checks of the largest wavenumber.
OptimalMassCheck ==
    /\ pc = "om_check"
    /\ IF args.k = <<>> THEN
            Raise("ValueError", 96) /\ UNCHANGED <<warnings, registry>>
       ELSE IF ArrMax(args.k) > KHard THEN
            Raise("OutOfCalibrationRange", 98) /\ UNCHANGED <<warnings, registry>>
       ELSE IF ArrMax(args.k) > KSoft /\ UserWarningFilter = "error" THEN
            Raise("UserWarning", 101) /\ UNCHANGED <<warnings, registry>>
       ELSE /\ Warn(IF ArrMax(args.k) > KSoft THEN <<W("k_above_nyquist")>> ELSE <<>>)
            /\ pc' = "om_eval"
            /\ UNCHANGED err
    /\ UNCHANGED <<fit_table, limit_table, history, ncalls,
                   call, args, params, k, logk, best_mass, mode, f_b, lims, mask,
                   sup, ret, done>>

\* Lines 104-106: the parameters, and 10 ** the optimal mass per wavenumber.
OptimalMassEval ==
    /\ pc = "om_eval"
    /\ LET r == get_params(args.SO, args.z) IN
       IF r.ok THEN /\ params' = r.params
                    /\ ret' = [NoRet EXCEPT !.masses =
                                 [i \in 1..Len(args.k) |->
                                    Pos(optimal_mass_funct(args.k[i], r.params))]]
                    /\ done' = done \o <<"params", "mass">>
                    /\ pc' = "returned"
                    /\ UNCHANGED err
               ELSE /\ Raise("InvalidConfiguration", 231)
                    /\ UNCHANGED <<params, ret, done>>
    /\ UNCHANGED <<fit_table, limit_table, history, ncalls, registry,
                   call, args, k, logk, best_mass, mode, f_b, lims, mask, sup,
                   warnings>>

\* --------------------------------------------------------- get_limits
\* Lines 196-207: the public call of get_limits.
GetLimits ==
    /\ pc = "gl_call"
    /\ IF get_limits_raises(args.SO)
       THEN Raise("KeyError", 196) /\ UNCHANGED <<ret, done>>
       ELSE /\ ret' = [NoRet EXCEPT !.limits = get_limits(args.SO, args.z, args.m_halo)]
            /\ done' = Append(done, "limits")
            /\ pc' = "returned"
            /\ UNCHANGED err
    /\ UNCHANGED <<fit_table, limit_table, history, ncalls, registry,
                   call, args, params, k, logk, best_mass, mode, f_b, lims, mask, sup,
                   warnings>>

\* ------------------------------------------------------ specification
Next ==
    \/ Validate
    \/ Params
    \/ Grid
    \/ Mass
    \/ BaryonFraction
    \/ Limits
    \/ Mask
    \/ Assemble
    \/ Finish
    \/ OptimalMassCheck
    \/ OptimalMassEval
    \/ GetLimits

Spec == Init /\ [][Next]_vars

\* ------------------------------------------------- calls one after another
\* The calls a process makes, in any order and any number of times: two
\* sup_model calls that return (soft warnings; a masked sub-range), two that
\* raise, an optimal_mass call that warns and two get_limits calls.
SeqCalls ==
    { <<"sup_model", [DefaultArgs EXCEPT !.z = 0, !.k_max = 12000, !.n = 2,
                                         !.fb_a = Pos(-4000), !.fb_pow = Lin(275)]>>,
      <<"sup_model", [DefaultArgs EXCEPT !.n = 3, !.errors = TRUE,
                                         !.M_halo = Arr(<<12000, 13300, 14500>>),
                                         !.fb = Arr(<<-1000, -500, 1500>>)]>>,
      <<"sup_model", [DefaultArgs EXCEPT !.z = 3125, !.n = 2]>>,
      <<"sup_model", [DefaultArgs EXCEPT !.SO = 500, !.z = 0, !.n = 2]>>,
      <<"optimal_mass", [DefaultArgs EXCEPT !.k = <<1000, 9000>>]>>,
      <<"get_limits", [DefaultArgs EXCEPT !.z = 0, !.m_halo = <<Pos(13000)>>]>>,
      <<"get_limits", [DefaultArgs EXCEPT !.SO = 100, !.m_halo = <<Pos(13000)>>]>> }

\* The first statement of a public function.
Entry(c) ==
    IF c = "sup_model" THEN "validate"
    ELSE IF c = "optimal_mass" THEN "om_check" ELSE "gl_call"

\* What the caller sees of a call that has ended.
Outcome == [pc |-> pc, err |-> err, ret |-> ret, warnings |-> warnings]

InitCalls ==
    /\ \E c \in SeqCalls : call = c[1] /\ args = c[2] /\ pc = Entry(c[1])
    /\ params = NoParams
    /\ k = <<>>
    /\ logk = <<>>
    /\ best_mass = <<>>
    /\ mode = "none"
    /\ f_b = <<>>
    /\ lims = NoLims
    /\ mask = NoMask
    /\ sup = <<>>
    /\ ret = NoRet
    /\ err = NoErr
    /\ warnings = <<>>
    /\ done = <<>>
    /\ fit_table = best_fit_vals
    /\ limit_table = limits
    /\ registry = {}
    /\ history = {}
    /\ ncalls = 0

\* The call has ended and the process makes its next call: the locals of
\* the ended call are gone, the module's and the interpreter's state stay.
NewCall ==
    /\ pc \in {"returned", "raised"}
    /\ ncalls < MaxCalls
    /\ history' = history \cup {[call |-> call, args |-> args, outcome |-> Outcome]}
    /\ ncalls' = ncalls + 1
    /\ \E c \in SeqCalls : call' = c[1] /\ args' = c[2] /\ pc' = Entry(c[1])
    /\ params' = NoParams
    /\ k' = <<>>
    /\ logk' = <<>>
    /\ best_mass' = <<>>
    /\ mode' = "none"
    /\ f_b' = <<>>
    /\ lims' = NoLims
    /\ mask' = NoMask
    /\ sup' = <<>>
    /\ ret' = NoRet
    /\ err' = NoErr
    /\ warnings' = <<>>
    /\ done' = <<>>
    /\ UNCHANGED <<fit_table, limit_table, registry>>

NextCalls ==
    \/ Next
    \/ NewCall

SpecCalls == InitCalls /\ [][NextCalls]_vars
\* ============================================================== claims
\* The numeric steps of a sup_model call that runs to its end.
AllSteps == <<"params", "grid", "mass", "fb", "limits", "mask", "assemble">>

SupEnded == call = "sup_model" /\ pc \in {"returned", "raised"}

SupRaised == call = "sup_model" /\ pc = "raised"

SupReturned == call = "sup_model" /\ pc = "returned"

\* C1 as stated: every error of sup_model is raised before any numeric step
\* (shape parameters, grid, optimal mass, baryon fraction) has run.
C1_AsStated == SupRaised => done = <<>>

\* C1 (amended): the redshift and k_max errors and the unsupported
\* overdensity error are raised with no numeric step completed; the
\* incomplete baryon-fraction error is raised only after the shape
\* parameters, the wavenumber grid and the optimal masses were computed.
C1_ErrorsAndNumericWork ==
    SupRaised =>
        /\ err.kind \in {"InvalidInput", "OutOfCalibrationRange", "InvalidConfiguration"}
              => done = <<>>
        /\ err.kind = "MissingParameter" => done = <<"params", "grid", "mass">>
        /\ err.kind \in {"InvalidInput", "OutOfCalibrationRange",
                        "InvalidConfiguration", "MissingParameter"}

C1_Witness ==
    /\ SupRaised
    /\ err.kind = "MissingParameter"
    /\ done = <<"params", "grid", "mass">>
    /\ args.n > 0
    /\ Len(best_mass) = args.n

\* C2: whatever the other arguments, z < 0 ends in InvalidInput, z > 3 in
\* OutOfCalibrationRange, and k_max > 12 with 0 <= z <= 3 in
\* OutOfCalibrationRange; no curve is returned in any of these cases.
C2_HardLimits ==
    (call = "sup_model" /\ pc # "validate") =>
        /\ args.z < 0 => pc = "raised" /\ err = [kind |-> "InvalidInput", line |-> 302]
        /\ args.z > 3000 =>
              pc = "raised" /\ err = [kind |-> "OutOfCalibrationRange", line |-> 305]
        /\ (args.z >= 0 /\ args.z <= 3000 /\ args.k_max > 12000) =>
              pc = "raised" /\ err = [kind |-> "OutOfCalibrationRange", line |-> 313]
        /\ (args.z < 0 \/ args.z > 3000 \/ args.k_max > 12000) => ret = NoRet

C2_Witness ==
    /\ SupRaised
    /\ args.z = 125 /\ args.k_max = 13000
    /\ args.SO = 100 /\ args.fb_a = NoneV /\ ~args.M_halo.given
    /\ err.kind = "OutOfCalibrationRange"
\* The call gave fb_a = 0 and some fb_pow.
ZeroAmplitude == args.fb_a = ZeroF /\ args.fb_pow # NoneV

\* C3 as stated: with fb_a = 0 and a given fb_pow the baryon fraction is 0 at
\* every wavenumber and the returned suppression equals mu(log10 k)
\* elementwise.
C3_AsStated ==
    (SupReturned /\ ZeroAmplitude /\ mode = "power_law") =>
        \A i \in 1..Len(ret.sup) :
            /\ f_b[i] = ZeroF
            /\ ret.sup[i] = Fin(mu_funct(logk[i], params))

\* C3 (amended): with fb_a = 0 and a non-zero fb_pow the power-law branch
\* runs, the baryon fraction is 0 at every wavenumber, and the returned
\* suppression is NaN at every index whose lower fit limit is above 0 (the
\* index is masked) and mu(log10 k) at the others; with fb_a = 0 and
\* fb_pow = 0 the test `fb_a or fb_pow` is false and the tabulated branch
\* runs instead.
C3_ZeroAmplitude ==
    (call = "sup_model" /\ ZeroAmplitude) =>
        /\ (mode # "none" /\ Truthy(args.fb_pow)) => mode = "power_law"
        /\ (mode # "none" /\ ~Truthy(args.fb_pow)) => mode = "tabulated"
        /\ (pc = "returned" /\ Truthy(args.fb_pow)) =>
              \A i \in 1..args.n :
                  /\ f_b[i] = ZeroF
                  /\ ret.sup[i] = IF FLess(ZeroF, lims.min_fb[i])
                                  THEN NaNF
                                  ELSE Fin(mu_funct(logk[i], params))

C3_Witness ==
    /\ SupReturned /\ ZeroAmplitude /\ Truthy(args.fb_pow)
    /\ args.n = 3 /\ args.z = 125
    /\ \A i \in 1..3 : f_b[i] = ZeroF /\ ret.sup[i] = NaNF /\ mask.out_min[i]

\* A baryon fraction outside [lo, hi], as the float comparisons decide it.
Outside(f, lo, hi) == FLess(f, lo) \/ FLess(hi, f)

\* A masking warning was emitted.
MaskWarned == \E j \in 1..Len(warnings) :
                 warnings[j].w \in {"fb_below_limit", "fb_above_limit"}

\* C4 as stated: sup[i] is NaN exactly when the baryon fraction at i is
\* outside [min_fb[i], max_fb[i]] and finite at every other index, and a
\* masking warning is emitted iff some index is masked.
C4_AsStated ==
    SupReturned =>
        /\ \A i \in 1..Len(ret.sup) :
              (ret.sup[i] = NaNF) <=> Outside(f_b[i], lims.min_fb[i], lims.max_fb[i])
        /\ MaskWarned <=>
              \E i \in 1..Len(ret.sup) : Outside(f_b[i], lims.min_fb[i], lims.max_fb[i])

\* C4 (amended): sup[i] is NaN exactly when the baryon fraction at i is below
\* min_fb[i], above max_fb[i], or itself NaN (a tabulated lookup outside the
\* supplied masses without extrapolation, which no limit comparison flags);
\* a masking warning is emitted iff some index is below or above its limit.
C4_Masking ==
    SupReturned =>
        /\ \A i \in 1..Len(ret.sup) :
              (ret.sup[i] = NaNF) <=>
                  (Outside(f_b[i], lims.min_fb[i], lims.max_fb[i]) \/ f_b[i] = NaNF)
        /\ \A i \in 1..Len(ret.sup) : ret.sup[i] # NaNF => ret.sup[i].c = "fin"
        /\ MaskWarned <=>
              \E i \in 1..Len(ret.sup) : Outside(f_b[i], lims.min_fb[i], lims.max_fb[i])

C4_Witness ==
    /\ SupReturned /\ mode = "tabulated" /\ args.n = 3
    /\ \E i, j \in 1..3 :
          /\ FLess(lims.max_fb[i], f_b[i]) /\ ret.sup[i] = NaNF
          /\ ~Outside(f_b[j], lims.min_fb[j], lims.max_fb[j]) /\ ret.sup[j].c = "fin"
    /\ MaskWarned
\* The arguments other than the baryon-fraction ones are valid: a supported
\* overdensity, a redshift in [0, 3] and k_max <= 12.
OtherArgsValid(a) == a.SO \in {200, 500} /\ a.z >= 0 /\ a.z <= 3000 /\ a.k_max <= 12000

\* The baryon-fraction specification is incomplete: exactly one power-law
\* parameter is given, or none is and M_halo or fb is missing.
IncompleteSpec(a) ==
    \/ (a.fb_a = NoneV) # (a.fb_pow = NoneV)
    \/ a.fb_a = NoneV /\ a.fb_pow = NoneV /\ (~a.M_halo.given \/ ~a.fb.given)

\* C5: a call with an incomplete baryon-fraction specification ends in a
\* MissingParameter error and never returns a curve.
C5_IncompleteSpecRaises ==
    (SupEnded /\ OtherArgsValid(args) /\ IncompleteSpec(args)) =>
        pc = "raised" /\ err.kind = "MissingParameter"

\* C6: power-law mode is used iff at least one of fb_a and fb_pow is given
\* (whatever its value), tabulated mode in every other case.
C6_ModeSelection ==
    (call = "sup_model" /\ mode # "none") =>
        /\ mode \in {"power_law", "tabulated"}
        /\ mode = "power_law" <=> (args.fb_a # NoneV \/ args.fb_pow # NoneV)

\* Whether xs never increases.
NonIncreasing(xs) == \A i \in 1..(Len(xs) - 1) : xs[i] >= xs[i + 1]

SoftViolation(a) == (a.z >= 0 /\ a.z < 125) \/ (a.k_max > 8000 /\ a.k_max <= 12000)

\* The baryon-fraction arguments select a branch and satisfy it.
CompleteSpec(a) ==
    IF Truthy(a.fb_a) \/ Truthy(a.fb_pow)
    THEN a.fb_a # NoneV /\ a.fb_pow # NoneV
    ELSE ~interpolator_raises(a.M_halo, a.fb)

\* The soft warnings a call must carry.
CarriesSoftWarnings(a, ws) ==
    /\ (a.z >= 0 /\ a.z < 125) => \E j \in 1..Len(ws) : ws[j].w = "z_below_calibration"
    /\ (a.k_max > 8000 /\ a.k_max <= 12000) =>
          \E j \in 1..Len(ws) : ws[j].w = "k_above_nyquist"

\* C8: a soft calibration-range violation emits its warning and does not
\* alter control flow: the warning never becomes an error, the call passes
\* the checks, and with otherwise valid arguments it runs every step and
\* returns a curve.
C8_SoftWarnings ==
    (call = "sup_model" /\ SoftViolation(args) /\ pc # "validate") =>
        /\ err.kind # "UserWarning"
        /\ (args.z >= 0 /\ args.z <= 3000 /\ args.k_max <= 12000) =>
              /\ CarriesSoftWarnings(args, warnings)
              /\ ~(pc = "raised" /\ err.line \in {302, 305, 309, 313, 317})
        /\ (OtherArgsValid(args) /\ CompleteSpec(args)) =>
              /\ pc # "raised"
              /\ pc = "returned" => done = AllSteps /\ Len(ret.k) = args.n

C8_Witness ==
    /\ SupReturned /\ args.z = 0 /\ args.k_max = 12000 /\ args.n = 3
    /\ done = AllSteps
    /\ Len(warnings) >= 2
    /\ warnings[1].w = "z_below_calibration" /\ warnings[2].w = "k_above_nyquist"

\* What optimal_mass returns for a supported overdensity.
OptimalMassValues(a) ==
    [i \in 1..Len(a.k) |-> Pos(optimal_mass_funct(a.k[i], EvalParams(a.SO, a.z)))]

\* C9: optimal_mass raises OutOfCalibrationRange when the largest wavenumber
\* is above 12; above 8 and at most 12 it warns and returns the values it
\* returns without the warning; at most 8 it returns without warning.  (An
\* unsupported overdensity ends either of the last two cases in the
\* overdensity error instead of a return.)
C9_OptimalMassLimits ==
    (call = "optimal_mass" /\ pc \in {"returned", "raised"} /\ args.k # <<>>) =>
        LET top == ArrMax(args.k) IN
        /\ top > 12000 =>
              /\ pc = "raised" /\ err = [kind |-> "OutOfCalibrationRange", line |-> 98]
              /\ ret = NoRet /\ warnings = <<>>
        /\ (top > 8000 /\ top <= 12000) => warnings = <<W("k_above_nyquist")>>
        /\ top <= 8000 => warnings = <<>>
        /\ top <= 12000 =>
              IF args.SO \in {200, 500}
              THEN pc = "returned" /\ ret.masses = OptimalMassValues(args)
              ELSE pc = "raised" /\ err.kind = "InvalidConfiguration"

C9_Witness ==
    /\ call = "optimal_mass" /\ pc = "returned"
    /\ args.k = <<1000, 9000>>
    /\ warnings = <<W("k_above_nyquist")>>
    /\ Len(ret.masses) = 2

\* C10 as stated: get_limits never fails, whatever the overdensity, the
\* redshift and the halo masses.
C10_AsStated == (call = "get_limits" /\ pc # "gl_call") => pc = "returned"

\* C10 (amended): for a supported overdensity (200 or 500) get_limits
\* returns a pair of arrays as long as the halo-mass array for any redshift
\* and masses, with NaN bounds for a redshift outside the fit-limit table;
\* for any other overdensity the table lookup raises (KeyError).
C10_GetLimits ==
    (call = "get_limits" /\ pc # "gl_call") =>
        IF args.SO \in {200, 500}
        THEN /\ pc = "returned"
             /\ Len(ret.limits.min_fb) = Len(args.m_halo)
             /\ Len(ret.limits.max_fb) = Len(args.m_halo)
             /\ (args.z < LimitZLo \/ args.z > LimitZHi) =>
                   \A i \in 1..Len(args.m_halo) :
                       ret.limits.min_fb[i] = NaNF /\ ret.limits.max_fb[i] = NaNF
        ELSE pc = "raised" /\ err = [kind |-> "KeyError", line |-> 196]

C10_Witness ==
    /\ call = "get_limits" /\ pc = "returned"
    /\ args.z = 3125 /\ Len(args.m_halo) = 2
    /\ ret.limits.min_fb = <<NaNF, NaNF>> /\ ret.limits.max_fb = <<NaNF, NaNF>>
\* The call has evaluated, or failed to evaluate, its shape parameters.
PastParams ==
    \/ call = "sup_model" /\ pc \notin {"validate", "params"}
                          /\ ~(pc = "raised" /\ err.line \in {302, 305, 309, 313, 317})
    \/ call = "optimal_mass" /\ pc \notin {"om_check", "om_eval"}
                             /\ ~(pc = "raised" /\ err.line \in {96, 98, 101})

\* C11: the parameter evaluator fails with InvalidConfiguration for every
\* overdensity other than 200 and 500; for 200 and 500 it gives a mapping
\* with all 11 parameter names, and it has done so before the optimal-mass
\* function or any shape function runs.
C11_ParameterEvaluator ==
    /\ PastParams =>
          IF args.SO \in {200, 500}
          THEN /\ DOMAIN params = ParamNames
               /\ Cardinality(DOMAIN params) = 11
               /\ done # <<>> /\ done[1] = "params"
               /\ ~(pc = "raised" /\ err.kind = "InvalidConfiguration")
          ELSE /\ pc = "raised"
               /\ err = [kind |-> "InvalidConfiguration", line |-> 231]
               /\ params = NoParams /\ ret = NoRet
    /\ (\E j \in 1..Len(done) : done[j] \in {"mass", "assemble"}) =>
          DOMAIN params = ParamNames

C11_Witness ==
    /\ call = "sup_model" /\ pc = "grid" /\ args.SO = 500
    /\ done = <<"params">>
    /\ DOMAIN params = ParamNames
    /\ params["nu_c"] = poly_2(Scale + args.z, FitVals500["nu_c"])
\* C12: sup_model (like the other public functions) is deterministic and
\* leaves no state behind: calls with identical arguments, in any order and
\* with any calls in between, end in the same outcome (the same error, or the
\* same arrays and the same warnings), and no call changes the coefficient
\* tables or the fit-limit tables.
C12_Deterministic ==
    /\ \A h1, h2 \in history :
          (h1.call = h2.call /\ h1.args = h2.args) => h1.outcome = h2.outcome
    /\ pc \in {"returned", "raised"} =>
          \A h \in history : (h.call = call /\ h.args = args) => h.outcome = Outcome
    /\ fit_table = best_fit_vals
    /\ limit_table = limits

C12_Witness ==
    /\ SupReturned /\ ncalls >= 2
    /\ warnings # <<>>
    /\ \E h \in history : h.call = call /\ h.args = args /\ h.outcome = Outcome
    /\ \E h \in history : h.call = "sup_model" /\ h.args # args
                          /\ h.outcome.pc = "returned" /\ h.outcome.warnings # <<>>
    /\ \E h \in history : h.call # "sup_model"
====
